---- MODULE Spec2Model ----
(***************************************************************************)
(* The FRI prover of fri/src/prover.rs as a state machine: prove,          *)
(* commit_phase and answer_query, with the transcript (challenger), the    *)
(* commitment scheme (Mmcs) and the fold strategy (FriGenericConfig) as    *)
(* collaborators.  The transcript is kept as the log of the operations     *)
(* performed on it; what it returns is chosen freely from its range.       *)
(***************************************************************************)
EXTENDS Integers, Sequences, FiniteSets, TLC

\* ---------------------------------------------------------------- bounds
MaxLen == 8        \* oracle lengths are drawn from 0..MaxLen
MaxOracles == 2    \* at most this many oracles are supplied
MaxQueries == 1    \* num_queries is drawn from 0..MaxQueries
MaxRounds == 3     \* commit rounds followed before the loop is left running

\* The field F: integers modulo Cardinality(Field).
Field == {0, 1}
P == Cardinality(Field)

\* Domains of the scalar parameters of a run.
LogBlowups == {0, 1}
LogFinalPolyLens == {0, 1}
ExtraBits == {0, 1}
PowBits == {0, 1}
Witnesses == {0, 1}
Seeds == {0}

\* The commitment schemes a run may be given: a faithful one, and stubs whose
\* open_batch returns a row of three values or two rows.
MmcsKinds == {"honest", "wide_rows", "two_rows"}

\* ------------------------------------------------------- integer helpers
RECURSIVE Pow2(_)
Pow2(n) == IF n <= 0 THEN 1 ELSE 2 * Pow2(n - 1)

\* usize >> k
Shr(x, k) == x \div Pow2(k)

\* usize ^ 1
Xor1(x) == IF x % 2 = 0 THEN x + 1 ELSE x - 1

\* cmp::max
Max(a, b) == IF a >= b THEN a ELSE b

Min(a, b) == IF a <= b THEN a ELSE b

IsPowerOfTwo(n) == \E k \in 0..MaxLen : n = Pow2(k)

\* p3_util::log2_strict_usize: defined on powers of two only (panics otherwise)
log2_strict_usize(n) == CHOOSE k \in 0..MaxLen : n = Pow2(k)

\* ------------------------------------------------------------ the inputs
\* An oracle of the given length; the seed varies its values.
Oracle(len, s) == [i \in 1..len |-> (s + i * i) % P]

InputListsUpTo(maxlen) ==
    UNION { { [k \in 1..n |-> Oracle(lens[k], s + k)] :
                lens \in [1..n -> 0..maxlen], s \in Seeds } :
            n \in 0..MaxOracles }

InputLists == InputListsUpTo(MaxLen)

\* lists of up to maxn oracles of lengths up to maxlen
InputListsOf(maxn, maxlen) ==
    UNION { { [k \in 1..n |-> Oracle(lens[k], s + k + 1)] :
                lens \in [1..n -> 0..maxlen], s \in Seeds } :
            n \in 0..maxn }

\* FriConfig (with the fold strategy's extra_query_index_bits alongside it)
Configs ==
    [ log_blowup : LogBlowups,
      log_final_poly_len : LogFinalPolyLens,
      num_queries : 0..MaxQueries,
      proof_of_work_bits : PowBits,
      extra_query_index_bits : ExtraBits,
      mmcs : MmcsKinds ]

\* FriConfig::blowup
blowup(c) == Pow2(c.log_blowup)

\* FriConfig::final_poly_len
final_poly_len(c) == Pow2(c.log_final_poly_len)

\* ------------------------------------------------------ the collaborators
\* RowMajorMatrix::new(values, 2): rows are consecutive pairs
RowMajorMatrix(values, w) == [values |-> values, width |-> w]

Height(m) == Len(m.values) \div m.width

\* row r (from 0) of a matrix
Row(m, r) == [j \in 1..m.width |-> m.values[r * m.width + j]]

\* Mmcs::commit_matrix: the commitment binds the committed values, the
\* prover data retains the matrix
commit_matrix(leaves) ==
    [commit |-> [root |-> leaves.values], prover_data |-> leaves]

\* Mmcs::get_matrices(..).pop().unwrap(): the committed matrix; the faulty
\* scheme "wide_tables" hands the same values back as rows of three
get_matrices(mmcs, prover_data) ==
    IF mmcs = "wide_tables" THEN RowMajorMatrix(prover_data.values, 3)
    ELSE prover_data

\* Mmcs::open_batch: the rows opened at a row index, and an opening proof
open_batch(mmcs, row_index, prover_data) ==
    LET row == Row(prover_data, row_index)
    IN  [opened_rows |->
             CASE mmcs = "wide_rows" -> << Append(row, 0) >>
               [] mmcs = "two_rows" -> << row, row >>
               [] OTHER -> << row >>,
         opening_proof |-> [row |-> row_index, root |-> prover_data.values]]

\* FriGenericConfig::fold_matrix: one folded value per row of the table
fold_row(beta, row) == (row[1] + beta * row[2]) % P

fold_matrix(beta, m) == [r \in 1..Height(m) |-> fold_row(beta, Row(m, r - 1))]

\* the open_input callback: an opaque opening for the index it is given
open_input(index) == [opened_at |-> index]

\* ------------------------------------------------- prove: the entry check
\* inputs.iter().tuple_windows().all(|(l, r)| l.len() >= r.len())
SortedDescending(ins) ==
    \A k \in 1..(Len(ins) - 1) : Len(ins[k]) >= Len(ins[k + 1])

\* the assert, inputs[0] and log2_strict_usize all succeed
EntryOk(ins) ==
    /\ SortedDescending(ins)
    /\ Len(ins) >= 1
    /\ IsPowerOfTwo(Len(ins[1]))

\* ------------------------------------------------ commit_phase: the loop
\* mutant: the two tests joined by && (the loop stops once nothing is pending)
LoopCond_and(fl, pend, c) ==
    /\ Len(fl) > Max(blowup(c), final_poly_len(c))
    /\ Len(pend) > 0

\* mutant: >= for > (one round too many)
LoopCond_ge(fl, pend, c) ==
    \/ Len(fl) >= Max(blowup(c), final_poly_len(c))
    \/ Len(pend) > 0

\* mutant: the threshold is the blowup alone
LoopCond_blowup_only(fl, pend, c) ==
    \/ Len(fl) > blowup(c)
    \/ Len(pend) > 0

\* mutant: the loop test forgets the pending oracles
LoopCond_no_peek(fl, pend, c) ==
    Len(fl) > Max(blowup(c), final_poly_len(c))

\* folded.len() > cmp::max(config.blowup(), config.final_poly_len())
\*     || inputs_iter.peek().is_some()
LoopCond(fl, pend, c) ==
    \/ Len(fl) > Max(blowup(c), final_poly_len(c))
    \/ Len(pend) > 0

\* mutant: an oracle at least as long as the vector is taken too
NextIf_ge(fl, pend) == Len(pend) > 0 /\ Len(pend[1]) >= Len(fl)

\* inputs_iter.next_if(|v| v.len() == folded.len())
NextIf(fl, pend) == Len(pend) > 0 /\ Len(pend[1]) = Len(fl)

\* izip!(&mut folded, v).for_each(|(c, x)| *c += x)
AddInto(fl, v) == [i \in 1..Len(fl) |-> (fl[i] + v[i]) % P]

\* mutant: the matching oracle is consumed but not added
Mixed_dropped(fl, pend) == fl

\* mutant: the matching oracle is appended to the vector, not added to it
Mixed_extended(fl, pend) == IF NextIf(fl, pend) THEN fl \o pend[1] ELSE fl

\* mutant: only the first element of the matching oracle is added
Mixed_first_only(fl, pend) ==
    IF NextIf(fl, pend)
    THEN [i \in 1..Len(fl) |-> IF i = 1 THEN (fl[1] + pend[1][1]) % P ELSE fl[i]]
    ELSE fl

\* the working vector after the fold and the mixing of a round
Mixed(fl, pend) == IF NextIf(fl, pend) THEN AddInto(fl, pend[1]) ELSE fl

\* mutant: the entry at index_i itself is taken, not its sibling
ProofStep_own(mmcs, prover_data, i, index) ==
    LET index_i == Shr(index, i)
        index_pair == Shr(index_i, 1)
        opened == open_batch(mmcs, index_pair, prover_data)
        opened_row == opened.opened_rows[1]
    IN  [sibling_value |-> opened_row[(index_i % 2) + 1],
         opening_proof |-> opened.opening_proof]

\* ------------------------------------------------------------ answer_query
\* one CommitPhaseProofStep, for round i (from 0) and the query's index
ProofStep(mmcs, prover_data, i, index) ==
    LET index_i == Shr(index, i)
        index_i_sibling == Xor1(index_i)
        index_pair == Shr(index_i, 1)
        opened == open_batch(mmcs, index_pair, prover_data)
        opened_row == opened.opened_rows[1]
    IN  [sibling_value |-> opened_row[(index_i_sibling % 2) + 1],
         opening_proof |-> opened.opening_proof]

\* mutant: the number of opened rows is not asserted
StepOk_no_count(mmcs, prover_data, i, index) ==
    LET index_pair == Shr(Shr(index, i), 1)
    IN  /\ index_pair < Height(prover_data)
        /\ Len(open_batch(mmcs, index_pair, prover_data).opened_rows[1]) = 2

\* mutant: the width of the opened row is not asserted
StepOk_no_width(mmcs, prover_data, i, index) ==
    LET index_pair == Shr(Shr(index, i), 1)
    IN  /\ index_pair < Height(prover_data)
        /\ Len(open_batch(mmcs, index_pair, prover_data).opened_rows) = 1

\* the row asked for exists and the two assert_eq! hold
StepOk(mmcs, prover_data, i, index) ==
    LET index_pair == Shr(Shr(index, i), 1)
    IN  /\ index_pair < Height(prover_data)
        /\ Len(open_batch(mmcs, index_pair, prover_data).opened_rows) = 1
        /\ Len(open_batch(mmcs, index_pair, prover_data).opened_rows[1]) = 2

AnswerOk(c, dat, index) ==
    \A i \in 1..Len(dat) : StepOk(c.mmcs, dat[i], i - 1, index)

\* mutant: the last round is not opened
answer_query_short(c, dat, index) ==
    [i \in 1..(Len(dat) - 1) |-> ProofStep(c.mmcs, dat[i], i - 1, index)]

answer_query(c, dat, index) ==
    [i \in 1..Len(dat) |-> ProofStep(c.mmcs, dat[i], i - 1, index)]

\* --------------------------------------- mds: the karatsuba convolutions
\* the order of the prime field F the generic routine is instantiated with
FieldOrder == 7

\* 2^n modulo m
RECURSIVE PowMod2(_, _)
PowMod2(n, m) == IF n = 0 THEN 1 % m ELSE (2 * PowMod2(n - 1, m)) % m

\* x.as_canonical_u64() as i64: the canonical representative
as_canonical_u64(x) == x % FieldOrder

\* F::from_wrapped_u64(x as u64) for an i64 x: the cast maps a negative x to
\* x + 2^64, and the result is that u64 reduced modulo the field order
from_wrapped_u64(x) ==
    IF x >= 0 THEN x % FieldOrder
    ELSE ((x % FieldOrder) + PowMod2(64, FieldOrder)) % FieldOrder

RECURSIVE SumSeq(_)
SumSeq(s) == IF s = << >> THEN 0 ELSE s[1] + SumSeq(Tail(s))

\* add_mut: lhs[i] += rhs[i] for i below rhs.len()
add_mut(lhs, rhs) ==
    [i \in 1..Len(lhs) |-> IF i <= Len(rhs) THEN lhs[i] + rhs[i] ELSE lhs[i]]

\* sub_mut: lhs[i] -= sub[i] for i below sub.len()
sub_mut(lhs, sub) ==
    [i \in 1..Len(lhs) |-> IF i <= Len(sub) THEN lhs[i] - sub[i] ELSE lhs[i]]

\* dot: the sum of lhs[i] * rhs[i] over the length of lhs
dot(lhs, rhs) == SumSeq([i \in 1..Len(lhs) |-> lhs[i] * rhs[i]])

\* x >> 1 on a signed integer
Shr1(x) == x \div 2

\* mutant: the first row is used as if it were the first column
row_to_col_same(row) == row

\* row_to_col: col[0] = row[0], col[i] = row[N - i]
row_to_col(row) ==
    [k \in 1..Len(row) |-> IF k = 1 THEN row[1] ELSE row[Len(row) - k + 2]]

\* conv4_slice: lhs(x) rhs(x) mod x^4 - 1
conv4_slice(lhs, rhs) ==
    LET lhs_p == << lhs[1] + lhs[3], lhs[2] + lhs[4] >>
        lhs_m == << lhs[1] - lhs[3], lhs[2] - lhs[4] >>
        rhs_p == << rhs[1] + rhs[3], rhs[2] + rhs[4] >>
        rhs_m == << rhs[1] - rhs[3], rhs[2] - rhs[4] >>
        w1 == << lhs_m[1] * rhs_m[1] - lhs_m[2] * rhs_m[2],
                 lhs_m[1] * rhs_m[2] + lhs_m[2] * rhs_m[1] >>
        w0 == << lhs_p[1] * rhs_p[1] + lhs_p[2] * rhs_p[2],
                 lhs_p[1] * rhs_p[2] + lhs_p[2] * rhs_p[1] >>
        o0 == Shr1(w1[1] + w0[1])
        o1 == Shr1(w1[2] + w0[2])
    IN  << o0, o1, w0[1] - o0, w0[2] - o1 >>

\* signed_conv4_slice: lhs(x) rhs(x) mod x^4 + 1
signed_conv4_slice(lhs, rhs) ==
    LET rhs_rev == << rhs[4], rhs[3], rhs[2], rhs[1] >>
    IN  << lhs[1] * rhs[1] - dot(SubSeq(lhs, 2, 4), SubSeq(rhs_rev, 1, 3)),
           dot(SubSeq(lhs, 1, 2), SubSeq(rhs_rev, 3, 4))
               - dot(SubSeq(lhs, 3, 4), SubSeq(rhs_rev, 1, 2)),
           dot(SubSeq(lhs, 1, 3), SubSeq(rhs_rev, 2, 4)) - lhs[4] * rhs[4],
           dot(lhs, rhs_rev) >>

\* split_eom: the even, the odd and the mixed (even + odd) parts
split_eom(vec) ==
    LET half == Len(vec) \div 2
    IN  [even |-> [i \in 1..half |-> vec[2 * i - 1]],
         odd |-> [i \in 1..half |-> vec[2 * i]],
         mix |-> [i \in 1..half |-> vec[2 * i - 1] + vec[2 * i]]]

\* rearrange: interleave the left and the right half (the loop reads
\* vec[i + half] before any write reaches it, since 2i + 1 < i + half + 1)
rearrange(vec) ==
    LET half == Len(vec) \div 2
    IN  [k \in 1..Len(vec) |->
            IF k % 2 = 1 THEN vec[(k + 1) \div 2] ELSE vec[(k \div 2) + half]]

\* signed_conv_karat_generic: lhs(x) rhs(x) mod x^n + 1
RECURSIVE signed_conv_karat_generic(_, _)
signed_conv_karat_generic(lhs, rhs) ==
    LET n == Len(lhs)
    IN  CASE n = 1 -> << lhs[1] * rhs[1] >>
          [] n = 2 -> << lhs[1] * rhs[1] - lhs[2] * rhs[2],
                         lhs[2] * rhs[1] + lhs[1] * rhs[2] >>
          [] n = 4 -> signed_conv4_slice(lhs, rhs)
          [] OTHER ->
              LET half == n \div 2
                  l == split_eom(lhs)
                  r == split_eom(rhs)
                  evens0 == signed_conv_karat_generic(l.even, r.even)
                  extra == signed_conv_karat_generic(l.odd, r.odd)
                  odds0 == signed_conv_karat_generic(l.mix, r.mix)
                  odds == sub_mut(sub_mut(odds0, evens0), extra)
                  evens == [i \in 1..half |->
                               IF i = 1 THEN evens0[1] - extra[half]
                               ELSE evens0[i] + extra[i - 1]]
              IN  rearrange(evens \o odds)

\* conv_karat_generic: lhs(x) rhs(x) mod x^n - 1
RECURSIVE conv_karat_generic(_, _)
conv_karat_generic(lhs, rhs) ==
    LET n == Len(lhs)
    IN  CASE n = 1 -> << lhs[1] * rhs[1] >>
          [] n = 2 -> << lhs[1] * rhs[1] + lhs[2] * rhs[2],
                         lhs[2] * rhs[1] + lhs[1] * rhs[2] >>
          [] n = 4 -> conv4_slice(lhs, rhs)
          [] OTHER ->
              LET half == n \div 2
                  lhs_p == add_mut(SubSeq(lhs, 1, half), SubSeq(lhs, half + 1, n))
                  lhs_m == sub_mut(SubSeq(lhs, 1, half), SubSeq(lhs, half + 1, n))
                  rhs_p == add_mut(SubSeq(rhs, 1, half), SubSeq(rhs, half + 1, n))
                  rhs_m == sub_mut(SubSeq(rhs, 1, half), SubSeq(rhs, half + 1, n))
                  w1 == signed_conv_karat_generic(lhs_m, rhs_m)
                  w0 == conv_karat_generic(lhs_p, rhs_p)
                  left == [i \in 1..half |-> Shr1(w1[i] + w0[i])]
                  right == [i \in 1..half |-> w0[i] - left[i]]
              IN  left \o right

\* apply_circulant_karat_generic_i64: lhs the field vector, rhs the first
\* row of the circulant matrix
apply_circulant_karat_generic_i64(lhs, rhs) ==
    LET lhs_i64 == [i \in 1..Len(lhs) |-> as_canonical_u64(lhs[i])]
        rhs_i64 == row_to_col(rhs)
        output == conv_karat_generic(lhs_i64, rhs_i64)
    IN  [i \in 1..Len(output) |-> from_wrapped_u64(output[i])]

\* ------------------- mds: the Convolution trait and its two implementors
\* the field order is 2^FieldBits - 1
FieldBits == 3

\* the reduction keeps this many more low bits than the field has
SlackBits == 11

\* T::mul_small(lhs, rhs): the product, taken where it cannot overflow
mul_small(lhs, rhs) == lhs * rhs

\* T::from_small_i128(input): the bits above the low FieldBits + SlackBits
\* are shifted down by FieldBits and added to the low bits, which gives a
\* smaller representative congruent to the input modulo 2^SlackBits times
\* the field order
from_small_i128(input) ==
    LET cut == Pow2(FieldBits + SlackBits)
    IN  (input % cut) + (input \div cut) * Pow2(SlackBits)

\* dot_i128: the sum of lhs[i] * rhs[i] over the length of lhs, as an i128
dot_i128(lhs, rhs) == SumSeq([i \in 1..Len(lhs) |-> lhs[i] * rhs[i]])

\* dot_i64: the same sum from mul_small products
dot_i64(lhs, rhs) == SumSeq([i \in 1..Len(lhs) |-> mul_small(lhs[i], rhs[i])])

\* add_vec: output[i] = lhs[i] + rhs[i] for i below N
add_vec(lhs, rhs, N) == [i \in 1..N |-> lhs[i] + rhs[i]]

\* sub_vec: output[i] = lhs[i] - sub[i] for i below N
sub_vec(lhs, sub, N) == [i \in 1..N |-> lhs[i] - sub[i]]

\* split_add_sub: the sum and the difference of the two halves
split_add_sub(input) ==
    LET HALF == Len(input) \div 2
        input_left == SubSeq(input, 1, HALF)
        input_right == SubSeq(input, HALF + 1, Len(input))
    IN  [p |-> add_vec(input_left, input_right, HALF),
         m |-> sub_vec(input_left, input_right, HALF)]

\* LargeConvolution::conv4: the four sums of products are reduced, then
\* recombined
LargeConvolution_conv4(lhs, rhs) ==
    LET lhs_p == << lhs[1] + lhs[3], lhs[2] + lhs[4] >>
        lhs_m == << lhs[1] - lhs[3], lhs[2] - lhs[4] >>
        rhs_p == << rhs[1] + rhs[3], rhs[2] + rhs[4] >>
        rhs_m == << rhs[1] - rhs[3], rhs[2] - rhs[4] >>
        w1_0 == from_small_i128(lhs_m[1] * rhs_m[1] - lhs_m[2] * rhs_m[2])
        w1_1 == from_small_i128(lhs_m[1] * rhs_m[2] + lhs_m[2] * rhs_m[1])
        w0_0 == from_small_i128(lhs_p[1] * rhs_p[1] + lhs_p[2] * rhs_p[2])
        w0_1 == from_small_i128(lhs_p[1] * rhs_p[2] + lhs_p[2] * rhs_p[1])
        o0 == Shr1(w1_0 + w0_0)
        o1 == Shr1(w1_1 + w0_1)
    IN  << o0, o1, w0_0 - o0, w0_1 - o1 >>

\* LargeConvolution::signed_conv4_mut
LargeConvolution_signed_conv4_mut(lhs, rhs) ==
    LET rhs_rev == << rhs[4], rhs[3], rhs[2], rhs[1] >>
    IN  << from_small_i128(lhs[1] * rhs_rev[4]
                  - dot_i128(SubSeq(lhs, 2, 4), SubSeq(rhs_rev, 1, 3))),
           from_small_i128(dot_i128(SubSeq(lhs, 1, 2), SubSeq(rhs_rev, 3, 4))
                  - dot_i128(SubSeq(lhs, 3, 4), SubSeq(rhs_rev, 1, 2))),
           from_small_i128(dot_i128(SubSeq(lhs, 1, 3), SubSeq(rhs_rev, 2, 4))
                  - lhs[4] * rhs_rev[1]),
           from_small_i128(dot_i128(lhs, rhs_rev)) >>

\* SmallConvolution::conv4: the same recombination on integer products
SmallConvolution_conv4(lhs, rhs) ==
    LET lhs_p == << lhs[1] + lhs[3], lhs[2] + lhs[4] >>
        lhs_m == << lhs[1] - lhs[3], lhs[2] - lhs[4] >>
        rhs_p == << rhs[1] + rhs[3], rhs[2] + rhs[4] >>
        rhs_m == << rhs[1] - rhs[3], rhs[2] - rhs[4] >>
        w1_0 == mul_small(lhs_m[1], rhs_m[1]) - mul_small(lhs_m[2], rhs_m[2])
        w1_1 == mul_small(lhs_m[1], rhs_m[2]) + mul_small(lhs_m[2], rhs_m[1])
        w0_0 == mul_small(lhs_p[1], rhs_p[1]) + mul_small(lhs_p[2], rhs_p[2])
        w0_1 == mul_small(lhs_p[1], rhs_p[2]) + mul_small(lhs_p[2], rhs_p[1])
        o0 == Shr1(w1_0 + w0_0)
        o1 == Shr1(w1_1 + w0_1)
    IN  << o0, o1, w0_0 - o0, w0_1 - o1 >>

\* SmallConvolution::signed_conv4_mut
SmallConvolution_signed_conv4_mut(lhs, rhs) ==
    LET rhs_rev == << rhs[4], rhs[3], rhs[2], rhs[1] >>
    IN  << mul_small(lhs[1], rhs[1])
               - dot_i64(SubSeq(lhs, 2, 4), SubSeq(rhs_rev, 1, 3)),
           dot_i64(SubSeq(lhs, 1, 2), SubSeq(rhs_rev, 3, 4))
               - dot_i64(SubSeq(lhs, 3, 4), SubSeq(rhs_rev, 1, 2)),
           dot_i64(SubSeq(lhs, 1, 3), SubSeq(rhs_rev, 2, 4))
               - mul_small(lhs[4], rhs[4]),
           dot_i64(lhs, rhs_rev) >>

\* the implementors of Convolution
Implementors == {"LargeConvolution", "SmallConvolution"}

\* Self::conv4
conv4(Self, lhs, rhs) ==
    IF Self = "LargeConvolution" THEN LargeConvolution_conv4(lhs, rhs)
    ELSE SmallConvolution_conv4(lhs, rhs)

\* Self::signed_conv4_mut
signed_conv4_mut(Self, lhs, rhs) ==
    IF Self = "LargeConvolution" THEN LargeConvolution_signed_conv4_mut(lhs, rhs)
    ELSE SmallConvolution_signed_conv4_mut(lhs, rhs)

\* Self::signed_conv4: signed_conv4_mut into a zeroed output
signed_conv4(Self, lhs, rhs) == signed_conv4_mut(Self, lhs, rhs)

\* mutant: the two residues are recombined without the halving
conv8_no_shift(Self, lhs, rhs) ==
    LET N == 8
        HALF == N \div 2
        l == split_add_sub(lhs)
        r == split_add_sub(rhs)
        loop(w_1, w_0) ==
            LET left == [i \in 1..HALF |-> w_1[i] + w_0[i]]
            IN  left \o [i \in 1..HALF |-> w_0[i] - left[i]]
    IN  loop(signed_conv4_mut(Self, l.m, r.m), conv4(Self, l.p, r.p))

\* Convolution::conv8: split_add_sub, signed_conv4 (w_1, into left) and
\* conv4 (w_0, into right), then the loop left = (w_0 + w_1) >> 1,
\* right = w_0 - left
conv8(Self, lhs, rhs) ==
    LET N == 8
        HALF == N \div 2
        l == split_add_sub(lhs)
        r == split_add_sub(rhs)
        loop(w_1, w_0) ==
            LET left == [i \in 1..HALF |-> Shr1(w_1[i] + w_0[i])]
            IN  left \o [i \in 1..HALF |-> w_0[i] - left[i]]
    IN  loop(signed_conv4_mut(Self, l.m, r.m), conv4(Self, l.p, r.p))

\* mutant: the top entry of the odd product is added, not subtracted
signed_conv8_no_wrap(Self, lhs, rhs) ==
    LET N == 8
        HALF == N \div 2
        lhs_even == [i \in 1..HALF |-> lhs[2 * i - 1]]
        lhs_odd == [i \in 1..HALF |-> lhs[2 * i]]
        rhs_even == [i \in 1..HALF |-> rhs[2 * i - 1]]
        rhs_odd == [i \in 1..HALF |-> rhs[2 * i]]
        recombine(prod_even0, prod_odd, prod_mix0) ==
            LET prod_mix == sub_mut(sub_mut(prod_mix0, prod_even0), prod_odd)
                prod_even == [i \in 1..HALF |->
                                 IF i = 1 THEN prod_even0[1] + prod_odd[HALF]
                                 ELSE prod_even0[i] + prod_odd[i - 1]]
            IN  [k \in 1..N |->
                    IF k % 2 = 1 THEN prod_even[(k + 1) \div 2]
                    ELSE prod_mix[k \div 2]]
    IN  recombine(signed_conv4(Self, lhs_even, rhs_even),
                  signed_conv4(Self, lhs_odd, rhs_odd),
                  signed_conv4(Self, add_mut(lhs_even, lhs_odd),
                               add_mut(rhs_even, rhs_odd)))

\* Convolution::signed_conv8: three signed_conv4 on the even, the odd
\* and the summed parts; prod_mix -= prod_even, prod_odd; prod_even gets
\* prod_odd shifted by one with its top entry wrapped; then interleaved
signed_conv8(Self, lhs, rhs) ==
    LET N == 8
        HALF == N \div 2
        lhs_even == [i \in 1..HALF |-> lhs[2 * i - 1]]
        lhs_odd == [i \in 1..HALF |-> lhs[2 * i]]
        rhs_even == [i \in 1..HALF |-> rhs[2 * i - 1]]
        rhs_odd == [i \in 1..HALF |-> rhs[2 * i]]
        recombine(prod_even0, prod_odd, prod_mix0) ==
            LET prod_mix == sub_mut(sub_mut(prod_mix0, prod_even0), prod_odd)
                prod_even == [i \in 1..HALF |->
                                 IF i = 1 THEN prod_even0[1] - prod_odd[HALF]
                                 ELSE prod_even0[i] + prod_odd[i - 1]]
            IN  [k \in 1..N |->
                    IF k % 2 = 1 THEN prod_even[(k + 1) \div 2]
                    ELSE prod_mix[k \div 2]]
    IN  recombine(signed_conv4(Self, lhs_even, rhs_even),
                  signed_conv4(Self, lhs_odd, rhs_odd),
                  signed_conv4(Self, add_mut(lhs_even, lhs_odd),
                               add_mut(rhs_even, rhs_odd)))

\* Convolution::conv16: split_add_sub, signed_conv8 (w_1, into left) and
\* conv8 (w_0, into right), then the loop left = (w_0 + w_1) >> 1,
\* right = w_0 - left
conv16(Self, lhs, rhs) ==
    LET N == 16
        HALF == N \div 2
        l == split_add_sub(lhs)
        r == split_add_sub(rhs)
        loop(w_1, w_0) ==
            LET left == [i \in 1..HALF |-> Shr1(w_1[i] + w_0[i])]
            IN  left \o [i \in 1..HALF |-> w_0[i] - left[i]]
    IN  loop(signed_conv8(Self, l.m, r.m), conv8(Self, l.p, r.p))

\* Convolution::signed_conv16: three signed_conv8 on the even, the odd
\* and the summed parts; prod_mix -= prod_even, prod_odd; prod_even gets
\* prod_odd shifted by one with its top entry wrapped; then interleaved
signed_conv16(Self, lhs, rhs) ==
    LET N == 16
        HALF == N \div 2
        lhs_even == [i \in 1..HALF |-> lhs[2 * i - 1]]
        lhs_odd == [i \in 1..HALF |-> lhs[2 * i]]
        rhs_even == [i \in 1..HALF |-> rhs[2 * i - 1]]
        rhs_odd == [i \in 1..HALF |-> rhs[2 * i]]
        recombine(prod_even0, prod_odd, prod_mix0) ==
            LET prod_mix == sub_mut(sub_mut(prod_mix0, prod_even0), prod_odd)
                prod_even == [i \in 1..HALF |->
                                 IF i = 1 THEN prod_even0[1] - prod_odd[HALF]
                                 ELSE prod_even0[i] + prod_odd[i - 1]]
            IN  [k \in 1..N |->
                    IF k % 2 = 1 THEN prod_even[(k + 1) \div 2]
                    ELSE prod_mix[k \div 2]]
    IN  recombine(signed_conv8(Self, lhs_even, rhs_even),
                  signed_conv8(Self, lhs_odd, rhs_odd),
                  signed_conv8(Self, add_mut(lhs_even, lhs_odd),
                               add_mut(rhs_even, rhs_odd)))

\* Convolution::conv32: split_add_sub, signed_conv16 (w_1, into left) and
\* conv16 (w_0, into right), then the loop left = (w_0 + w_1) >> 1,
\* right = w_0 - left
conv32(Self, lhs, rhs) ==
    LET N == 32
        HALF == N \div 2
        l == split_add_sub(lhs)
        r == split_add_sub(rhs)
        loop(w_1, w_0) ==
            LET left == [i \in 1..HALF |-> Shr1(w_1[i] + w_0[i])]
            IN  left \o [i \in 1..HALF |-> w_0[i] - left[i]]
    IN  loop(signed_conv16(Self, l.m, r.m), conv16(Self, l.p, r.p))

\* Convolution::signed_conv32: three signed_conv16 on the even, the odd
\* and the summed parts; prod_mix -= prod_even, prod_odd; prod_even gets
\* prod_odd shifted by one with its top entry wrapped; then interleaved
signed_conv32(Self, lhs, rhs) ==
    LET N == 32
        HALF == N \div 2
        lhs_even == [i \in 1..HALF |-> lhs[2 * i - 1]]
        lhs_odd == [i \in 1..HALF |-> lhs[2 * i]]
        rhs_even == [i \in 1..HALF |-> rhs[2 * i - 1]]
        rhs_odd == [i \in 1..HALF |-> rhs[2 * i]]
        recombine(prod_even0, prod_odd, prod_mix0) ==
            LET prod_mix == sub_mut(sub_mut(prod_mix0, prod_even0), prod_odd)
                prod_even == [i \in 1..HALF |->
                                 IF i = 1 THEN prod_even0[1] - prod_odd[HALF]
                                 ELSE prod_even0[i] + prod_odd[i - 1]]
            IN  [k \in 1..N |->
                    IF k % 2 = 1 THEN prod_even[(k + 1) \div 2]
                    ELSE prod_mix[k \div 2]]
    IN  recombine(signed_conv16(Self, lhs_even, rhs_even),
                  signed_conv16(Self, lhs_odd, rhs_odd),
                  signed_conv16(Self, add_mut(lhs_even, lhs_odd),
                               add_mut(rhs_even, rhs_odd)))

\* Convolution::conv64: add_vec and sub_vec on the halves, signed_conv32 (w_1, into left) and
\* conv32 (w_0, into right), then the loop left = (w_0 + w_1) >> 1,
\* right = w_0 - left
conv64(Self, lhs, rhs) ==
    LET N == 64
        HALF == N \div 2
        lhs_p == add_vec(SubSeq(lhs, 1, HALF), SubSeq(lhs, HALF + 1, N), HALF)
        lhs_m == sub_vec(SubSeq(lhs, 1, HALF), SubSeq(lhs, HALF + 1, N), HALF)
        rhs_p == add_vec(SubSeq(rhs, 1, HALF), SubSeq(rhs, HALF + 1, N), HALF)
        rhs_m == sub_vec(SubSeq(rhs, 1, HALF), SubSeq(rhs, HALF + 1, N), HALF)
        loop(w_1, w_0) ==
            LET left == [i \in 1..HALF |-> Shr1(w_1[i] + w_0[i])]
            IN  left \o [i \in 1..HALF |-> w_0[i] - left[i]]
    IN  loop(signed_conv32(Self, lhs_m, rhs_m), conv32(Self, lhs_p, rhs_p))

\* ------------------------------------------- mds: the length-12 routine
\* the first row of the 12 x 12 MDS matrix
MATRIX_CIRC_MDS_12_SML == << 1, 1, 2, 1, 8, 9, 10, 7, 5, 9, 4, 10 >>

\* conv3: lhs(x) rhs(x) mod x^3 - 1, written out
conv3(lhs, rhs) ==
    << lhs[1] * rhs[1] + lhs[2] * rhs[3] + lhs[3] * rhs[2],
       lhs[1] * rhs[2] + lhs[2] * rhs[1] + lhs[3] * rhs[3],
       lhs[1] * rhs[3] + lhs[2] * rhs[2] + lhs[3] * rhs[1] >>

\* sign_conv3: lhs(x) rhs(x) mod x^3 + 1, written out
sign_conv3(lhs, rhs) ==
    << lhs[1] * rhs[1] - lhs[2] * rhs[3] - lhs[3] * rhs[2],
       lhs[1] * rhs[2] + lhs[2] * rhs[1] - lhs[3] * rhs[3],
       lhs[1] * rhs[3] + lhs[2] * rhs[2] + lhs[3] * rhs[1] >>

\* conv6 before its last line: output = [prod_p + prod_m, prod_p - prod_m]
conv6_doubled(lhs, rhs) ==
    LET l == split_add_sub(lhs)
        r == split_add_sub(rhs)
        prod_p == conv3(l.p, r.p)
        prod_m == sign_conv3(l.m, r.m)
    IN  add_mut(prod_p, prod_m) \o sub_mut(prod_p, prod_m)

\* conv6: every entry of that output shifted right by one
conv6(lhs, rhs) ==
    LET output == conv6_doubled(lhs, rhs)
    IN  [k \in 1..Len(output) |-> Shr1(output[k])]

\* mutant: the last product of output[4] is added, not subtracted
sign_conv6_plus(lhs, rhs) ==
    LET rhs_rev == << rhs[6], rhs[5], rhs[4], rhs[3], rhs[2], rhs[1] >>
    IN  << lhs[1] * rhs[1] - dot(SubSeq(lhs, 2, 6), SubSeq(rhs_rev, 1, 5)),
           dot(SubSeq(lhs, 1, 2), SubSeq(rhs_rev, 5, 6))
               - dot(SubSeq(lhs, 3, 6), SubSeq(rhs_rev, 1, 4)),
           dot(SubSeq(lhs, 1, 3), SubSeq(rhs_rev, 4, 6))
               - dot(SubSeq(lhs, 4, 6), SubSeq(rhs_rev, 1, 3)),
           dot(SubSeq(lhs, 1, 4), SubSeq(rhs_rev, 3, 6))
               - dot(SubSeq(lhs, 5, 6), SubSeq(rhs_rev, 1, 2)),
           dot(SubSeq(lhs, 1, 5), SubSeq(rhs_rev, 2, 6)) + lhs[6] * rhs[6],
           dot(lhs, rhs_rev) >>

\* sign_conv6: lhs(x) rhs(x) mod x^6 + 1 by dot products with the reversed rhs
sign_conv6(lhs, rhs) ==
    LET rhs_rev == << rhs[6], rhs[5], rhs[4], rhs[3], rhs[2], rhs[1] >>
    IN  << lhs[1] * rhs[1] - dot(SubSeq(lhs, 2, 6), SubSeq(rhs_rev, 1, 5)),
           dot(SubSeq(lhs, 1, 2), SubSeq(rhs_rev, 5, 6))
               - dot(SubSeq(lhs, 3, 6), SubSeq(rhs_rev, 1, 4)),
           dot(SubSeq(lhs, 1, 3), SubSeq(rhs_rev, 4, 6))
               - dot(SubSeq(lhs, 4, 6), SubSeq(rhs_rev, 1, 3)),
           dot(SubSeq(lhs, 1, 4), SubSeq(rhs_rev, 3, 6))
               - dot(SubSeq(lhs, 5, 6), SubSeq(rhs_rev, 1, 2)),
           dot(SubSeq(lhs, 1, 5), SubSeq(rhs_rev, 2, 6)) - lhs[6] * rhs[6],
           dot(lhs, rhs_rev) >>

\* conv12 before its last line: output = [prod_p + prod_m, prod_p - prod_m]
conv12_doubled(lhs, rhs) ==
    LET l == split_add_sub(lhs)
        r == split_add_sub(rhs)
        prod_p == conv6(l.p, r.p)
        prod_m == sign_conv6(l.m, r.m)
    IN  add_mut(prod_p, prod_m) \o sub_mut(prod_p, prod_m)

\* conv12: every entry of that output shifted right by one
conv12(lhs, rhs) ==
    LET output == conv12_doubled(lhs, rhs)
    IN  [k \in 1..Len(output) |-> Shr1(output[k])]

\* ------------------------------------------------------------------ state
VARIABLES
    pc,              \* where prove stands
    cfg,             \* config (and g.extra_query_index_bits())
    inputs,          \* the oracles as supplied
    challenger,      \* the transcript: the log of the operations done on it
    log_max_height,
    inputs_iter,     \* the oracles not yet taken from the peekable iterator
    folded,          \* the working vector
    commits,
    data,
    round,           \* the commit and prover data of the round under way
    beta,
    final_poly,      \* commit_phase_result.final_poly
    pow_witness,
    index,           \* the query index under way
    query_proofs,
    proof,           \* the FriProof returned
    mds              \* a call of apply_circulant_karat_generic_i64

vars == << pc, cfg, inputs, challenger, log_max_height, inputs_iter, folded,
           commits, data, round, beta, final_poly, pow_witness, index,
           query_proofs, proof, mds >>

None == << >>

\* no call of the mds routine is under way
NoCall == [stage |-> "idle"]

commit_vars == << inputs_iter, folded, commits, data, round, beta >>
query_vars == << index, query_proofs >>

Observed(c) == [op |-> "observe", arg |-> << c >>, ret |-> << >>]
Sampled(b) == [op |-> "sample", arg |-> << >>, ret |-> << b >>]
Ground(bits, w) == [op |-> "grind", arg |-> << bits >>, ret |-> << w >>]
SampledBits(bits, i) == [op |-> "sample_bits", arg |-> << bits >>, ret |-> << i >>]

Init ==
    /\ pc = "start"
    /\ cfg \in Configs
    /\ inputs \in InputLists
    /\ challenger = << >>
    /\ log_max_height = 0
    /\ inputs_iter = << >>
    /\ folded = << >>
    /\ commits = << >>
    /\ data = << >>
    /\ round = None
    /\ beta = None
    /\ final_poly = None
    /\ pow_witness = None
    /\ index = None
    /\ query_proofs = << >>
    /\ proof = None
    /\ mds = NoCall

\* Runs with one query more, over oracles of at most half the length.
InitQueries ==
    /\ pc = "start"
    /\ \E c \in Configs, n \in 0..(MaxQueries + 1) :
          cfg = [c EXCEPT !.num_queries = n]
    /\ inputs \in InputListsUpTo(MaxLen \div 2)
    /\ challenger = << >>
    /\ log_max_height = 0
    /\ inputs_iter = << >>
    /\ folded = << >>
    /\ commits = << >>
    /\ data = << >>
    /\ round = None
    /\ beta = None
    /\ final_poly = None
    /\ pow_witness = None
    /\ index = None
    /\ query_proofs = << >>
    /\ proof = None
    /\ mds = NoCall

\* Runs with a commitment scheme whose retained tables have rows of three.
InitTables ==
    /\ pc = "start"
    /\ \E c \in Configs : cfg = [c EXCEPT !.mmcs = "wide_tables"]
    /\ inputs \in InputLists
    /\ challenger = << >>
    /\ log_max_height = 0
    /\ inputs_iter = << >>
    /\ folded = << >>
    /\ commits = << >>
    /\ data = << >>
    /\ round = None
    /\ beta = None
    /\ final_poly = None
    /\ pow_witness = None
    /\ index = None
    /\ query_proofs = << >>
    /\ proof = None
    /\ mds = NoCall

\* Runs with one oracle more, over oracles of at most half the length.
InitOracles ==
    /\ pc = "start"
    /\ cfg \in Configs
    /\ inputs \in InputListsOf(MaxOracles + 1, MaxLen \div 2)
    /\ challenger = << >>
    /\ log_max_height = 0
    /\ inputs_iter = << >>
    /\ folded = << >>
    /\ commits = << >>
    /\ data = << >>
    /\ round = None
    /\ beta = None
    /\ final_poly = None
    /\ pow_witness = None
    /\ index = None
    /\ query_proofs = << >>
    /\ proof = None
    /\ mds = NoCall

\* prove, lines 30-35: the assert on the order, inputs[0], log2_strict_usize
EntryFails ==
    /\ pc = "start"
    /\ ~EntryOk(inputs)
    /\ pc' = "abort"
    /\ UNCHANGED << mds, cfg, inputs, challenger, log_max_height, commit_vars,
                    final_poly, pow_witness, query_vars, proof >>

\* prove, lines 30-37, and commit_phase, lines 82-85
Enter ==
    /\ pc = "start"
    /\ EntryOk(inputs)
    /\ log_max_height' = log2_strict_usize(Len(inputs[1]))
    /\ folded' = inputs[1]
    /\ inputs_iter' = Tail(inputs)
    /\ pc' = "loop"
    /\ UNCHANGED << mds, cfg, inputs, challenger, commits, data, round, beta,
                    final_poly, pow_witness, query_vars, proof >>

\* commit_phase, lines 88-92: the loop test holds, the table is committed.
\* RowMajorMatrix::new checks the shape with a debug assertion only, so a
\* vector of odd length stops a debug build and is truncated by a release one.
CommitRound ==
    /\ pc = "loop"
    /\ LoopCond(folded, inputs_iter, cfg)
    /\ Len(commits) < MaxRounds
    /\ Len(folded) % 2 = 0
    /\ round' = commit_matrix(RowMajorMatrix(folded, 2))
    /\ pc' = "observe"
    /\ UNCHANGED << mds, cfg, inputs, challenger, log_max_height, inputs_iter,
                    folded, commits, data, beta, final_poly, pow_witness,
                    query_vars, proof >>

CommitOddRelease ==
    /\ pc = "loop"
    /\ LoopCond(folded, inputs_iter, cfg)
    /\ Len(commits) < MaxRounds
    /\ Len(folded) % 2 # 0
    /\ round' = commit_matrix(RowMajorMatrix(folded, 2))
    /\ pc' = "observe"
    /\ UNCHANGED << mds, cfg, inputs, challenger, log_max_height, inputs_iter,
                    folded, commits, data, beta, final_poly, pow_witness,
                    query_vars, proof >>

CommitOddDebug ==
    /\ pc = "loop"
    /\ LoopCond(folded, inputs_iter, cfg)
    /\ Len(commits) < MaxRounds
    /\ Len(folded) % 2 # 0
    /\ pc' = "abort"
    /\ UNCHANGED << mds, cfg, inputs, challenger, log_max_height, commit_vars,
                    final_poly, pow_witness, query_vars, proof >>

\* the loop goes on beyond the rounds that are followed here
RunOn ==
    /\ pc = "loop"
    /\ LoopCond(folded, inputs_iter, cfg)
    /\ Len(commits) >= MaxRounds
    /\ pc' = "running"
    /\ UNCHANGED << mds, cfg, inputs, challenger, log_max_height, commit_vars,
                    final_poly, pow_witness, query_vars, proof >>

\* commit_phase, line 93: challenger.observe(commit.clone())
Observe ==
    /\ pc = "observe"
    /\ challenger' = Append(challenger, Observed(round.commit))
    /\ pc' = "sample"
    /\ UNCHANGED << mds, cfg, inputs, log_max_height, commit_vars, final_poly,
                    pow_witness, query_vars, proof >>

\* commit_phase, line 95: let beta: F = challenger.sample()
SampleBeta ==
    /\ pc = "sample"
    /\ \E b \in Field :
         /\ beta' = b
         /\ challenger' = Append(challenger, Sampled(b))
    /\ pc' = "fold"
    /\ UNCHANGED << mds, cfg, inputs, log_max_height, inputs_iter, folded, commits,
                    data, round, final_poly, pow_witness, query_vars, proof >>

\* mutant: the table is folded with a fixed value, not with the challenge
FoldStep_fixed_beta ==
    /\ pc = "fold"
    /\ LET leaves == get_matrices(cfg.mmcs, round.prover_data)
           next == fold_matrix(0, leaves)
       IN  /\ folded' = Mixed(next, inputs_iter)
           /\ inputs_iter' = IF NextIf(next, inputs_iter)
                             THEN Tail(inputs_iter) ELSE inputs_iter
    /\ commits' = Append(commits, round.commit)
    /\ data' = Append(data, round.prover_data)
    /\ round' = None
    /\ beta' = None
    /\ pc' = "loop"
    /\ UNCHANGED << mds, cfg, inputs, challenger, log_max_height, final_poly,
                    pow_witness, query_vars, proof >>

\* commit_phase, lines 97-105: fold, keep the round, mix the next oracle in
FoldStep ==
    /\ pc = "fold"
    /\ LET leaves == get_matrices(cfg.mmcs, round.prover_data)
           next == fold_matrix(beta, leaves)
       IN  /\ folded' = Mixed(next, inputs_iter)
           /\ inputs_iter' = IF NextIf(next, inputs_iter)
                             THEN Tail(inputs_iter) ELSE inputs_iter
    /\ commits' = Append(commits, round.commit)
    /\ data' = Append(data, round.prover_data)
    /\ round' = None
    /\ beta' = None
    /\ pc' = "loop"
    /\ UNCHANGED << mds, cfg, inputs, challenger, log_max_height, final_poly,
                    pow_witness, query_vars, proof >>

\* commit_phase, lines 88 and 108-112: the loop test fails, the result is built
Return ==
    /\ pc = "loop"
    /\ ~LoopCond(folded, inputs_iter, cfg)
    /\ final_poly' = folded
    /\ folded' = << >>
    /\ pc' = "grind"
    /\ UNCHANGED << mds, cfg, inputs, challenger, log_max_height, inputs_iter,
                    commits, data, round, beta, pow_witness, query_vars, proof >>

\* mutant: no grind when no proof of work is asked for
Grind_skipped ==
    /\ pc = "grind"
    /\ \E w \in Witnesses :
         /\ pow_witness' = w
         /\ challenger' =
              IF cfg.proof_of_work_bits = 0 THEN challenger
              ELSE Append(challenger, Ground(cfg.proof_of_work_bits, w))
    /\ pc' = "query"
    /\ UNCHANGED << mds, cfg, inputs, log_max_height, commit_vars, final_poly,
                    query_vars, proof >>

\* mutant: grind is given another field of the config
Grind_wrong_bits ==
    /\ pc = "grind"
    /\ \E w \in Witnesses :
         /\ pow_witness' = w
         /\ challenger' = Append(challenger, Ground(cfg.num_queries, w))
    /\ pc' = "query"
    /\ UNCHANGED << mds, cfg, inputs, log_max_height, commit_vars, final_poly,
                    query_vars, proof >>

\* prove, line 39: challenger.grind(config.proof_of_work_bits)
Grind ==
    /\ pc = "grind"
    /\ \E w \in Witnesses :
         /\ pow_witness' = w
         /\ challenger' = Append(challenger, Ground(cfg.proof_of_work_bits, w))
    /\ pc' = "query"
    /\ UNCHANGED << mds, cfg, inputs, log_max_height, commit_vars, final_poly,
                    query_vars, proof >>

\* mutant: the extra index bits are left out of the width
IndexBits_no_extra == log_max_height

\* mutant: one bit too many is asked for
IndexBits_plus_one == log_max_height + cfg.extra_query_index_bits + 1

\* the width of a query index
IndexBits == log_max_height + cfg.extra_query_index_bits

\* prove, lines 42-43: the next index of the repeat_with(..).take(num_queries)
SampleBits ==
    /\ pc = "query"
    /\ Len(query_proofs) < cfg.num_queries
    /\ \E i \in 0..(Pow2(IndexBits) - 1) :
         /\ index' = i
         /\ challenger' = Append(challenger, SampledBits(IndexBits, i))
    /\ pc' = "answer_query"
    /\ UNCHANGED << mds, cfg, inputs, log_max_height, commit_vars, final_poly,
                    pow_witness, query_proofs, proof >>

\* mutant: answering a query also absorbs the first sibling value opened
AnswerQuery_observes ==
    /\ pc = "answer_query"
    /\ AnswerOk(cfg, data, Shr(index, cfg.extra_query_index_bits))
    /\ LET openings ==
               answer_query(cfg, data, Shr(index, cfg.extra_query_index_bits))
       IN  /\ query_proofs' = Append(query_proofs,
                  [input_proof |-> open_input(index),
                   commit_phase_openings |-> openings])
           /\ challenger' = IF openings = << >> THEN challenger
                            ELSE Append(challenger, Observed(openings[1].sibling_value))
    /\ index' = None
    /\ pc' = "query"
    /\ UNCHANGED << mds, cfg, inputs, log_max_height, commit_vars,
                    final_poly, pow_witness, proof >>

\* mutant: the new query proof is put in front of the earlier ones
AnswerQuery_prepends ==
    /\ pc = "answer_query"
    /\ AnswerOk(cfg, data, Shr(index, cfg.extra_query_index_bits))
    /\ query_proofs' =
          << [input_proof |-> open_input(index),
              commit_phase_openings |->
                  answer_query(cfg, data, Shr(index, cfg.extra_query_index_bits))] >>
              \o query_proofs
    /\ index' = None
    /\ pc' = "query"
    /\ UNCHANGED << mds, cfg, inputs, challenger, log_max_height, commit_vars,
                    final_poly, pow_witness, proof >>

\* mutant: the input opening is asked for the index without its extra bits
AnswerQuery_strips_input ==
    /\ pc = "answer_query"
    /\ AnswerOk(cfg, data, Shr(index, cfg.extra_query_index_bits))
    /\ query_proofs' = Append(query_proofs,
          [input_proof |-> open_input(Shr(index, cfg.extra_query_index_bits)),
           commit_phase_openings |->
               answer_query(cfg, data, Shr(index, cfg.extra_query_index_bits))])
    /\ index' = None
    /\ pc' = "query"
    /\ UNCHANGED << mds, cfg, inputs, challenger, log_max_height, commit_vars,
                    final_poly, pow_witness, proof >>

\* prove, lines 44-51, and answer_query, lines 124-143: the QueryProof
AnswerQuery ==
    /\ pc = "answer_query"
    /\ AnswerOk(cfg, data, Shr(index, cfg.extra_query_index_bits))
    /\ query_proofs' = Append(query_proofs,
          [input_proof |-> open_input(index),
           commit_phase_openings |->
               answer_query(cfg, data, Shr(index, cfg.extra_query_index_bits))])
    /\ index' = None
    /\ pc' = "query"
    /\ UNCHANGED << mds, cfg, inputs, challenger, log_max_height, commit_vars,
                    final_poly, pow_witness, proof >>

\* answer_query, lines 132-135: open_batch or one of the assert_eq! fails
AnswerFails ==
    /\ pc = "answer_query"
    /\ ~AnswerOk(cfg, data, Shr(index, cfg.extra_query_index_bits))
    /\ pc' = "abort"
    /\ UNCHANGED << mds, cfg, inputs, challenger, log_max_height, commit_vars,
                    final_poly, pow_witness, query_vars, proof >>

\* prove, lines 55-60: the FriProof
Assemble ==
    /\ pc = "query"
    /\ Len(query_proofs) >= cfg.num_queries
    /\ proof' = [commit_phase_commits |-> commits,
                 query_proofs |-> query_proofs,
                 final_poly |-> final_poly,
                 pow_witness |-> pow_witness]
    /\ pc' = "done"
    /\ UNCHANGED << mds, cfg, inputs, challenger, log_max_height, commit_vars,
                    final_poly, pow_witness, query_vars >>

Next ==
    \/ EntryFails
    \/ Enter
    \/ CommitRound
    \/ CommitOddRelease
    \/ CommitOddDebug
    \/ RunOn
    \/ Observe
    \/ SampleBeta
    \/ FoldStep
    \/ Return
    \/ Grind
    \/ SampleBits
    \/ AnswerQuery
    \/ AnswerFails
    \/ Assemble

Spec == Init /\ [][Next]_vars

SpecQueries == InitQueries /\ [][Next]_vars

SpecTables == InitTables /\ [][Next]_vars

SpecOracles == InitOracles /\ [][Next]_vars

\* ------------------------------------ mds: calls of the generic routine
MaxLogN == 4

\* the first row of the 8 x 8 MDS matrix
MATRIX_CIRC_MDS_8_SML == << 4, 1, 2, 9, 10, 5, 1, 1 >>

\* a vector of length N with a at position i and b elsewhere
Spike(N, i, a, b) == [k \in 1..N |-> IF k = i THEN a ELSE b]

\* the field vectors tried: canonical representatives
FieldVectors(N) ==
    { Spike(N, i, a, b) : i \in 1..N, a \in {1, FieldOrder - 1}, b \in {0, 1} }

\* the first rows tried: an entry that is negative or larger than the field
\* order among zeros or ones, and the MDS row
Rows(N) ==
    { Spike(N, j, c, d) : j \in 1..N, c \in {-1, 10}, d \in {0, 1} }
        \cup (IF N = 8 THEN {MATRIX_CIRC_MDS_8_SML} ELSE {})

InitKarat ==
    /\ \E k \in 0..MaxLogN :
          \E lhs \in FieldVectors(Pow2(k)), rhs \in Rows(Pow2(k)) :
              mds = [stage |-> "call", lhs |-> lhs, rhs |-> rhs, output |-> None]
    /\ pc = "idle"
    /\ cfg = None
    /\ inputs = << >>
    /\ challenger = << >>
    /\ log_max_height = 0
    /\ inputs_iter = << >>
    /\ folded = << >>
    /\ commits = << >>
    /\ data = << >>
    /\ round = None
    /\ beta = None
    /\ final_poly = None
    /\ pow_witness = None
    /\ index = None
    /\ query_proofs = << >>
    /\ proof = None

\* apply_circulant_karat_generic_i64(lhs, rhs)
ApplyCirculant ==
    /\ mds.stage = "call"
    /\ mds' = [mds EXCEPT !.stage = "return",
                          !.output = apply_circulant_karat_generic_i64(mds.lhs, mds.rhs)]
    /\ UNCHANGED << pc, cfg, inputs, challenger, log_max_height, commit_vars,
                    final_poly, pow_witness, query_vars, proof >>

NextKarat == ApplyCirculant

SpecKarat == InitKarat /\ [][NextKarat]_vars

\* --------------------------- mds: calls of the trait's fixed-size routines
\* the sizes conv is provided for
ConvSizes == {8, 16, 32, 64}

\* the sizes signed_conv is provided for
SignedConvSizes == {4, 8, 16, 32}

\* where the distinguished entry of a tried vector sits: the ends and both
\* sides of the middle
ConvPositions(N) == {1, 2, N \div 2, (N \div 2) + 1, N}

\* a vector of length N that is not sparse: entries -1, 0 and 3
Ramp(N, m) == [k \in 1..N |-> ((k * k) % m) - 1]

\* the left vectors tried: field elements in canonical form, and two ramps
ConvLhs(N) ==
    { Spike(N, i, a, b) : i \in ConvPositions(N), a \in {1, FieldOrder - 1}, b \in {0, 1} }
        \cup { Ramp(N, m) : m \in {3, 5} }

\* the right vectors tried: a negative or a large entry, and two ramps
ConvRhs(N) ==
    { Spike(N, j, c, d) : j \in ConvPositions(N), c \in {-3, 200}, d \in {0, 1} }
        \cup { Ramp(N, m) : m \in {3, 5} }

\* further left vectors of length 12: every entry takes either value, so
\* that the sums and differences of all parities occur
Lhs12 == { [k \in 1..12 |-> IF k \in S THEN FieldOrder - 2 ELSE 2] : S \in SUBSET {1, 4, 6, 7, 9, 12} }

\* the calls tried: Self::convN, Self::signed_convN and conv12
ConvCalls ==
    { [stage |-> "call", fn |-> "conv", Self |-> s, lhs |-> l, rhs |-> r, output |-> None] :
        s \in Implementors, l \in UNION { ConvLhs(N) : N \in ConvSizes },
        r \in UNION { ConvRhs(N) : N \in ConvSizes } }
    \cup
    { [stage |-> "call", fn |-> "signed_conv", Self |-> s, lhs |-> l, rhs |-> r,
       output |-> None] :
        s \in Implementors, l \in UNION { ConvLhs(N) : N \in SignedConvSizes },
        r \in UNION { ConvRhs(N) : N \in SignedConvSizes } }
    \cup
    { [stage |-> "call", fn |-> "conv12", Self |-> "none", lhs |-> l, rhs |-> r,
       output |-> None] :
        l \in ConvLhs(12) \cup Lhs12, r \in ConvRhs(12) \cup {row_to_col(MATRIX_CIRC_MDS_12_SML)} }

InitConv ==
    /\ mds \in { c \in ConvCalls : Len(c.lhs) = Len(c.rhs) }
    /\ pc = "idle"
    /\ cfg = None
    /\ inputs = << >>
    /\ challenger = << >>
    /\ log_max_height = 0
    /\ inputs_iter = << >>
    /\ folded = << >>
    /\ commits = << >>
    /\ data = << >>
    /\ round = None
    /\ beta = None
    /\ final_poly = None
    /\ pow_witness = None
    /\ index = None
    /\ query_proofs = << >>
    /\ proof = None

\* Self::convN(lhs, rhs, output) for the size N of the vectors
Conv ==
    /\ mds.stage = "call"
    /\ mds.fn = "conv"
    /\ mds' = [mds EXCEPT !.stage = "return",
                          !.output = CASE Len(mds.lhs) = 8 -> conv8(mds.Self, mds.lhs, mds.rhs)
                                       [] Len(mds.lhs) = 16 -> conv16(mds.Self, mds.lhs, mds.rhs)
                                       [] Len(mds.lhs) = 32 -> conv32(mds.Self, mds.lhs, mds.rhs)
                                       [] Len(mds.lhs) = 64 -> conv64(mds.Self, mds.lhs, mds.rhs)]
    /\ UNCHANGED << pc, cfg, inputs, challenger, log_max_height, commit_vars,
                    final_poly, pow_witness, query_vars, proof >>

\* Self::signed_convN(lhs, rhs) for the size N of the vectors
SignedConv ==
    /\ mds.stage = "call"
    /\ mds.fn = "signed_conv"
    /\ mds' = [mds EXCEPT !.stage = "return",
                          !.output = CASE Len(mds.lhs) = 4 -> signed_conv4(mds.Self, mds.lhs, mds.rhs)
                                       [] Len(mds.lhs) = 8 -> signed_conv8(mds.Self, mds.lhs, mds.rhs)
                                       [] Len(mds.lhs) = 16 -> signed_conv16(mds.Self, mds.lhs, mds.rhs)
                                       [] Len(mds.lhs) = 32 -> signed_conv32(mds.Self, mds.lhs, mds.rhs)]
    /\ UNCHANGED << pc, cfg, inputs, challenger, log_max_height, commit_vars,
                    final_poly, pow_witness, query_vars, proof >>

\* conv12(lhs, rhs)
Conv12 ==
    /\ mds.stage = "call"
    /\ mds.fn = "conv12"
    /\ mds' = [mds EXCEPT !.stage = "return", !.output = conv12(mds.lhs, mds.rhs)]
    /\ UNCHANGED << pc, cfg, inputs, challenger, log_max_height, commit_vars,
                    final_poly, pow_witness, query_vars, proof >>

NextConv == Conv \/ SignedConv \/ Conv12

SpecConv == InitConv /\ [][NextConv]_vars

\* ------------------------------------------------------ terms of the claims
\* cmp::max(config.blowup(), config.final_poly_len())
Threshold == Max(blowup(cfg), final_poly_len(cfg))

\* at least one oracle, every length a power of two, lengths strictly decreasing
StrictlyDecreasing(ins) ==
    \A k \in 1..(Len(ins) - 1) : Len(ins[k]) > Len(ins[k + 1])

AllPowersOfTwo(ins) == \A k \in 1..Len(ins) : IsPowerOfTwo(Len(ins[k]))

ValidInputs ==
    /\ Len(inputs) >= 1
    /\ AllPowersOfTwo(inputs)
    /\ StrictlyDecreasing(inputs)

\* the least r >= 0 with L / 2^r <= T
RoundsFor(L, T) ==
    CHOOSE r \in 0..MaxLen :
        /\ Shr(L, r) <= T
        /\ \A q \in 0..(r - 1) : Shr(L, q) > T

OpsOf(kind) == { i \in 1..Len(challenger) : challenger[i].op = kind }

\* no transcript operation has been performed
Untouched == challenger = << >>

\* prove has not gone past its commit phase: it stands before the return of
\* commit_phase, or it aborted there; an abort while answering a query comes
\* after the return, and by then the transcript holds the grind
NotReturned ==
    /\ pc \notin {"grind", "query", "answer_query", "done"}
    /\ OpsOf("grind") = {}

\* the working vector after round i (rounds counted from 1): the table
\* committed in the next round, or the vector the loop holds or returned
WorkingAfter(i) ==
    IF i < Len(data) THEN data[i + 1].values
    ELSE IF final_poly # None THEN final_poly
    ELSE folded

\* the challenge drawn in round i, as the transcript returned it
ChallengeOf(i) == challenger[2 * i].ret[1]

\* ------------------------------------------------------------------ claims
\* the phase a transcript operation belongs to
Phase(e) ==
    CASE e.op \in {"observe", "sample"} -> 0
      [] e.op = "grind" -> 1
      [] OTHER -> 2

\* C1: in every run the transcript sees the commit-phase operations (observe
\* and sample, in pairs) first, then exactly one grind, then only the sampling
\* of query indices; a finished run has R pairs, one grind and num_queries
\* index samples, in that order.
C1_PhaseOrder ==
    /\ \A i \in 1..(Len(challenger) - 1) :
          /\ Phase(challenger[i]) <= Phase(challenger[i + 1])
          /\ Phase(challenger[i]) = 1 => Phase(challenger[i + 1]) = 2
          /\ Phase(challenger[i + 1]) = 2 => Phase(challenger[i]) >= 1
    /\ Len(challenger) >= 1 => Phase(challenger[1]) <= 1
    /\ pc \in {"query", "answer_query", "done"} =>
          /\ Len(challenger) >= 2 * Len(commits) + 1
          /\ challenger[2 * Len(commits) + 1].op = "grind"
          /\ \A i \in 1..Len(commits) :
                /\ challenger[2 * i - 1].op = "observe"
                /\ challenger[2 * i].op = "sample"
    /\ pc \in {"start", "loop", "observe", "sample", "fold", "running", "grind"} =>
          \A i \in 1..Len(challenger) : Phase(challenger[i]) = 0
    /\ pc = "done" => Len(challenger) = 2 * Len(commits) + 1 + cfg.num_queries

C1_Witness ==
    /\ pc = "done"
    /\ Len(commits) >= 2
    /\ cfg.num_queries >= 1
    /\ OpsOf("sample_bits") # {}

\* C2: in every round the commitment is observed before the challenge is
\* sampled, the table is folded with that challenge, and the next table is
\* committed only after both.
C2_RoundOrder ==
    /\ \A i \in 1..Len(commits) :
          /\ challenger[2 * i - 1].op = "observe"
          /\ challenger[2 * i - 1].arg[1] = commits[i]
          /\ commits[i] = commit_matrix(data[i]).commit
          /\ challenger[2 * i].op = "sample"
    /\ pc \in {"loop", "running", "grind", "done"} =>
        \A i \in 1..Len(commits) :
          /\ \/ WorkingAfter(i) = fold_matrix(ChallengeOf(i), data[i])
             \/ \E k \in 2..Len(inputs) :
                   /\ Len(inputs[k]) = Len(WorkingAfter(i))
                   /\ WorkingAfter(i) =
                        AddInto(fold_matrix(ChallengeOf(i), data[i]), inputs[k])
    /\ pc = "observe" => Len(challenger) = 2 * Len(commits)
    /\ pc = "sample" =>
          /\ Len(challenger) = 2 * Len(commits) + 1
          /\ challenger[Len(challenger)].op = "observe"
          /\ challenger[Len(challenger)].arg[1] = round.commit
    /\ pc = "fold" =>
          /\ Len(challenger) = 2 * Len(commits) + 2
          /\ challenger[Len(challenger) - 1].op = "observe"
          /\ challenger[Len(challenger) - 1].arg[1] = round.commit
          /\ challenger[Len(challenger)] = Sampled(beta)

C2_Witness ==
    /\ pc = "done"
    /\ Len(commits) >= 2
    /\ ChallengeOf(1) # 0
    /\ fold_matrix(ChallengeOf(1), data[1]) # fold_matrix(0, data[1])

\* C3: an oracle list that is not sorted by strictly decreasing length makes
\* prove abort before any transcript operation: the transcript stays as it
\* was and no proof is produced.
C3_UnsortedAbortsUntouched ==
    ~StrictlyDecreasing(inputs) => (Untouched /\ NotReturned)

\* C4: an oracle (the first or a later one) whose length is not a power of two
\* makes prove abort before any transcript operation: the transcript stays as
\* it was and no proof is produced.
C4_NotPowerOfTwoAbortsUntouched ==
    ~AllPowersOfTwo(inputs) => (Untouched /\ NotReturned)

\* C5: a returned proof has a final_poly no longer than max(blowup, final_poly_len).
C5_FinalPolyShort ==
    pc = "done" => Len(proof.final_poly) <= Threshold

C5_Witness ==
    /\ pc = "done"
    /\ Len(proof.commit_phase_commits) >= 1
    /\ blowup(cfg) < final_poly_len(cfg)
    /\ Len(proof.final_poly) = final_poly_len(cfg)

\* C6: a returned proof has exactly num_queries query proofs, each with as
\* many opening steps as there are round commitments.
C6_QueryShape ==
    pc = "done" =>
        /\ Len(proof.query_proofs) = cfg.num_queries
        /\ \A q \in 1..Len(proof.query_proofs) :
              Len(proof.query_proofs[q].commit_phase_openings) =
                  Len(proof.commit_phase_commits)

C6_Witness ==
    /\ pc = "done"
    /\ cfg.num_queries >= 1
    /\ Len(proof.query_proofs) = cfg.num_queries
    /\ Len(proof.commit_phase_commits) >= 2

\* C7 as claimed: for valid inputs the number of round commitments is fixed by
\* the largest oracle's length and the two thresholds alone.  A single oracle
\* is a valid input and gives RoundsFor(L, T) rounds, so a function of these
\* three values alone would have to be RoundsFor.
C7_RoundsFromLargestOnly ==
    (ValidInputs /\ pc = "done") =>
        Len(proof.commit_phase_commits) = RoundsFor(Len(inputs[1]), Threshold)

\* C7 as amended: for valid inputs the number of round commitments is fixed by
\* the largest and the smallest oracle's length and the two thresholds,
\* whatever the transcript returns: folding goes on until the working vector
\* is no longer than the threshold and no longer than the smallest oracle.
C7_RoundsFromLengths ==
    (ValidInputs /\ pc = "done") =>
        Len(proof.commit_phase_commits) =
            RoundsFor(Len(inputs[1]),
                      Min(Threshold, Len(inputs[Len(inputs)])))

C7_Witness ==
    /\ ValidInputs
    /\ pc = "done"
    /\ Len(inputs) >= 2
    /\ Len(inputs[Len(inputs)]) < Threshold
    /\ Len(proof.commit_phase_commits) > RoundsFor(Len(inputs[1]), Threshold)
    /\ \E i \in OpsOf("sample") : challenger[i].ret[1] # 0

\* the number of rounds after which the first oracle has the second's length
CatchUp == log2_strict_usize(Len(inputs[1])) - log2_strict_usize(Len(inputs[2]))

\* C9: with oracles of lengths L > L', once the k rounds that fold the first
\* down to L' are done the working vector is the fold of round k's table plus
\* the second oracle, element by element.
C9_MixedIn ==
    (/\ pc \in {"loop", "grind", "done"}
     /\ ValidInputs /\ Len(inputs) >= 2 /\ Len(data) >= CatchUp) =>
        /\ Len(data[CatchUp].values) = 2 * Len(inputs[2])
        /\ WorkingAfter(CatchUp) =
              AddInto(fold_matrix(ChallengeOf(CatchUp), data[CatchUp]), inputs[2])

C9_Witness ==
    /\ ValidInputs
    /\ Len(inputs) >= 2
    /\ pc = "done"
    /\ CatchUp >= 2
    /\ WorkingAfter(CatchUp) # fold_matrix(ChallengeOf(CatchUp), data[CatchUp])

\* C10: a single oracle of power-of-two length L takes R rounds, R the least
\* r with L / 2^r <= T: R commitments, a final_poly of length L / 2^R; L = 8
\* and T = 2 give 2 rounds and length 2; L <= T gives no round and the oracle
\* itself as final_poly.
C10_SingleOracleRounds ==
    (Len(inputs) = 1 /\ IsPowerOfTwo(Len(inputs[1])) /\ pc = "done") =>
        LET L == Len(inputs[1])
            R == RoundsFor(L, Threshold)
        IN  /\ Len(proof.commit_phase_commits) = R
            /\ Cardinality(OpsOf("observe")) = R
            /\ Len(proof.final_poly) = Shr(L, R)
            /\ (L = 8 /\ Threshold = 2) =>
                  (Len(proof.commit_phase_commits) = 2 /\ Len(proof.final_poly) = 2)
            /\ L <= Threshold =>
                  (proof.commit_phase_commits = << >> /\ proof.final_poly = inputs[1])

C10_Witness ==
    /\ Len(inputs) = 1
    /\ Len(inputs[1]) = 8
    /\ Threshold = 2
    /\ pc = "done"
    /\ Len(proof.commit_phase_commits) = 2
    /\ Len(proof.final_poly) = 2

\* C11: the commit-phase loop stops exactly at the first round boundary where
\* the working vector is no longer than max(blowup, final_poly_len) and no
\* oracle is pending: the loop is left for the return only when both hold, a
\* round (or the construction of its table) is entered only when one of them
\* fails, and a boundary at which both hold can only be left by returning.
C11_LoopStopsExactly ==
    [][ /\ (pc = "loop" /\ pc' = "grind") =>
              /\ Len(folded) <= Threshold
              /\ inputs_iter = << >>
              /\ final_poly' = folded
        /\ (pc = "loop" /\ pc' \notin {"loop", "grind"}) =>
              (Len(folded) > Threshold \/ inputs_iter # << >>)
        /\ (pc = "loop" /\ Len(folded) <= Threshold /\ inputs_iter = << >>) =>
              pc' \in {"loop", "grind"}
      ]_vars

\* a returned run that passed a boundary where the vector was already short
\* enough but an oracle was still pending
C11_Witness ==
    /\ pc = "done"
    /\ ValidInputs
    /\ Len(inputs) >= 2
    /\ \E i \in 1..Len(data) : Len(data[i].values) <= Threshold
    /\ Len(final_poly) <= Threshold
    /\ inputs_iter = << >>

\* the index the transcript returned for query q (queries counted from 1)
SampledIndexOf(q) == challenger[2 * Len(commits) + 1 + q].ret[1]

\* index_i of query q in round i (rounds counted from 0)
IndexAt(q, i) == Shr(Shr(SampledIndexOf(q), cfg.extra_query_index_bits), i)

\* C12: for every answered query and every round i, index_i is the sampled
\* index, extra bits stripped, shifted right by i; the row opened against
\* round i's commitment is index_i >> 1; and with a scheme that opens
\* faithfully the sibling value is the entry at position index_i XOR 1 of the
\* vector committed in round i.
C12_SiblingOpened ==
    \A q \in 1..Len(query_proofs) :
        /\ Len(query_proofs[q].commit_phase_openings) = Len(data)
        /\ \A i \in 1..Len(data) :
            LET step == query_proofs[q].commit_phase_openings[i]
                index_i == IndexAt(q, i - 1)
            IN  /\ step.opening_proof.row = Shr(index_i, 1)
                /\ step.opening_proof.root = commits[i].root
                /\ cfg.mmcs = "honest" =>
                      step.sibling_value = data[i].values[Xor1(index_i) + 1]

\* a returned proof with two rounds and an extra index bit, whose query hit
\* a row with two different entries at an odd and at a non-zero position
C12_Witness ==
    /\ pc = "done"
    /\ cfg.mmcs = "honest"
    /\ cfg.extra_query_index_bits = 1
    /\ Len(query_proofs) >= 1
    /\ Len(data) >= 2
    /\ IndexAt(1, 0) % 2 = 1
    /\ IndexAt(1, 1) >= 1
    /\ \E i \in 1..Len(data) :
          data[i].values[IndexAt(1, i - 1) + 1] #
              query_proofs[1].commit_phase_openings[i].sibling_value

\* the commitment scheme opens something else than one row of two entries
MalformedOpenings == cfg.mmcs \in {"wide_rows", "two_rows"}

\* C13: when the opening of a round's table returns a number of rows other
\* than one, or a row that is not two entries long, proof generation aborts
\* as a whole: no query proof is kept, no proof is returned, and once an
\* index has been sampled the run does not come back for another one.
C13_MalformedOpeningAborts ==
    /\ pc = "abort" => proof = None
    /\ (MalformedOpenings /\ Len(data) >= 1) =>
          /\ query_proofs = << >>
          /\ OpsOf("sample_bits") # {} =>
                (pc \in {"answer_query", "abort"} /\ proof = None)

\* an abort inside answer_query, on a scheme that opens two rows
C13_Witness ==
    /\ pc = "abort"
    /\ cfg.mmcs = "two_rows"
    /\ Len(data) >= 2
    /\ OpsOf("sample_bits") # {}
    /\ query_proofs = << >>
    /\ proof = None

\* C14 as claimed: with a commitment scheme that opens rows of three entries
\* every run of prove aborts, so none returns a proof.
C14_WideRowsNeverReturn ==
    cfg.mmcs = "wide_rows" => pc # "done"

\* C14 as amended: with a commitment scheme that opens rows of three entries,
\* a run whose commit phase has returned after at least one round and that is
\* asked for at least one query can only grind, sample one index and abort
\* in the first answer_query: the first answer_query fails, the abort comes
\* with exactly one index sampled, no query is answered and no proof is
\* returned.  A run whose commit phase has returned without a round, or that
\* is asked for no query, opens nothing and does not abort; only such a run
\* returns a proof.
C14_WideRowsAbort ==
    cfg.mmcs = "wide_rows" =>
        /\ (~NotReturned /\ Len(data) >= 1 /\ cfg.num_queries >= 1) =>
              /\ pc \in {"grind", "query", "answer_query", "abort"}
              /\ proof = None
              /\ query_proofs = << >>
              /\ pc \in {"grind", "query"} => OpsOf("sample_bits") = {}
              /\ pc \in {"answer_query", "abort"} =>
                    Cardinality(OpsOf("sample_bits")) = 1
              /\ pc = "answer_query" =>
                    ~AnswerOk(cfg, data, Shr(index, cfg.extra_query_index_bits))
        /\ (~NotReturned /\ (Len(data) = 0 \/ cfg.num_queries = 0)) =>
              pc # "abort"
        /\ pc = "done" =>
              (proof.commit_phase_commits = << >> \/ cfg.num_queries = 0)

\* the abort in the first answer_query, after two rounds
C14_Witness ==
    /\ pc = "abort"
    /\ cfg.mmcs = "wide_rows"
    /\ cfg.num_queries >= 1
    /\ Len(data) >= 2
    /\ Cardinality(OpsOf("sample_bits")) = 1
    /\ query_proofs = << >>

\* a round boundary the loop can never leave: nothing is left to fold, and
\* the pending oracle is not empty, so no later round ever consumes it; each
\* further round folds the empty vector and comes back to this boundary
Starved ==
    /\ pc \in {"loop", "running"}
    /\ folded = << >>
    /\ inputs_iter # << >>
    /\ Len(inputs_iter[1]) # 0

\* C15: every run that passed the entry check returns a proof or aborts:
\* with the halving fold the commit-phase loop cannot run forever, so no run
\* reaches a boundary from which the loop can only repeat.
C15_LoopTerminates ==
    EntryOk(inputs) => ~Starved

\* C16: grind is called once, with the configured proof_of_work_bits, after
\* the commit phase; the pow_witness of the proof is the value that call
\* returned; and every query index is sampled after it, with nothing else
\* done on the transcript in between.
C16_GrindWitness ==
    pc \in {"query", "answer_query", "done"} =>
        LET at == 2 * Len(commits) + 1
        IN  /\ Len(challenger) >= at
            /\ challenger[at].op = "grind"
            /\ challenger[at].arg = << cfg.proof_of_work_bits >>
            /\ challenger[at].ret = << pow_witness >>
            /\ OpsOf("grind") = {at}
            /\ \A i \in (at + 1)..Len(challenger) :
                  challenger[i].op = "sample_bits"
            /\ \A i \in OpsOf("sample_bits") : i > at
            /\ pc = "done" => proof.pow_witness = challenger[at].ret[1]

\* a returned proof with a non-default witness for a non-zero difficulty
C16_Witness ==
    /\ pc = "done"
    /\ cfg.proof_of_work_bits = 1
    /\ cfg.num_queries >= 1
    /\ Len(commits) >= 1
    /\ proof.pow_witness = 1
    /\ OpsOf("sample_bits") # {}

\* C17: every query index is sampled with sample_bits of width
\* log2(length of the first oracle) + extra_query_index_bits, the same width
\* for all queries, and is therefore below 2^width.
C17_IndexWidth ==
    \A i \in OpsOf("sample_bits") :
        LET width == log2_strict_usize(Len(inputs[1]))
                        + cfg.extra_query_index_bits
        IN  /\ challenger[i].arg = << width >>
            /\ challenger[i].ret[1] \in 0..(Pow2(width) - 1)
            /\ \A j \in OpsOf("sample_bits") :
                  challenger[j].arg = challenger[i].arg

\* two queries on an oracle of length 4 with one extra bit, with different
\* indices, one of them using the extra bit
C17_Witness ==
    /\ pc = "done"
    /\ cfg.num_queries = 2
    /\ cfg.extra_query_index_bits = 1
    /\ Len(inputs[1]) = 4
    /\ Cardinality(OpsOf("sample_bits")) = 2
    /\ \E i, j \in OpsOf("sample_bits") :
          /\ challenger[i].ret[1] >= 4
          /\ challenger[j].ret[1] # challenger[i].ret[1]

\* C19: each fold round halves the working vector: with a first oracle of
\* length L, the table committed in round i (from 0) is built from a vector
\* of length L / 2^i, and the vector held after the rounds done so far has
\* length L / 2^rounds, whether or not an oracle was mixed in; for valid
\* inputs the halving is exact.
C19_Halving ==
    Len(inputs) >= 1 =>
        LET L == Len(inputs[1])
        IN  /\ \A i \in 1..Len(data) : Len(data[i].values) = Shr(L, i - 1)
            /\ pc = "loop" => Len(folded) = Shr(L, Len(data))
            /\ pc \in {"grind", "done"} =>
                  /\ Len(final_poly) = Shr(L, Len(data))
                  /\ ValidInputs =>
                        /\ Len(final_poly) * Pow2(Len(data)) = L
                        /\ \A i \in 1..Len(data) :
                              Len(data[i].values) * Pow2(i - 1) = L

\* three rounds on a valid pair of oracles, the second mixed in on the way
C19_Witness ==
    /\ pc = "done"
    /\ ValidInputs
    /\ Len(inputs) >= 2
    /\ Len(inputs[1]) = 8
    /\ Len(data) = 3
    /\ Len(data[3].values) = 2
    /\ Len(final_poly) = 1
    /\ \E i \in 1..Len(data) :
          WorkingAfter(i) # fold_matrix(ChallengeOf(i), data[i])

\* C20: a commit round in which the table obtained from the commitment
\* scheme for the data just committed has rows that are not two entries wide
\* aborts the commit phase there: no such round is completed and kept, and
\* no later round follows it.
C20_WideTableAborts ==
    \A i \in 1..Len(data) : get_matrices(cfg.mmcs, data[i]).width = 2

\* entry i (from 0) of the integer product M.v, M the circulant matrix with
\* first row `row`: M[i][j] = row[(j - i) mod N]
CirculantEntry(row, v, i) ==
    SumSeq([j \in 1..Len(v) |-> row[((j - 1 - i) % Len(v)) + 1] * v[j]])

\* the call has returned
Returned == mds.stage = "return"

\* C18 as claimed: for every power-of-two N the routine returns M.v reduced
\* into the field, M the circulant matrix whose first row is the integer
\* vector and v the field vector.
C18_CirculantProduct ==
    Returned =>
        /\ Len(mds.output) = Len(mds.lhs)
        /\ \A i \in 1..Len(mds.lhs) :
              mds.output[i] = CirculantEntry(mds.rhs, mds.lhs, i - 1) % FieldOrder

\* C18 as amended: every entry of the integer product that is not negative,
\* as all are when the first row has no negative entry, is returned reduced
\* into the field; a negative entry x is returned as (x + 2^64) reduced.
C18_CirculantProductNonNegative ==
    Returned =>
        /\ Len(mds.output) = Len(mds.lhs)
        /\ \A i \in 1..Len(mds.lhs) :
              LET x == CirculantEntry(mds.rhs, mds.lhs, i - 1)
              IN  /\ x >= 0 => mds.output[i] = x % FieldOrder
                  /\ x < 0 => mds.output[i] =
                        ((x % FieldOrder) + PowMod2(64, FieldOrder)) % FieldOrder
        /\ (\A j \in 1..Len(mds.rhs) : mds.rhs[j] >= 0) =>
              \A i \in 1..Len(mds.lhs) :
                  CirculantEntry(mds.rhs, mds.lhs, i - 1) >= 0

\* a returned call of size 16 on a row without negative entries, not
\* symmetric, with a product entry that had to be reduced
C18_Witness ==
    /\ Returned
    /\ Len(mds.lhs) = 16
    /\ \A j \in 1..16 : mds.rhs[j] >= 0
    /\ row_to_col(mds.rhs) # mds.rhs
    /\ \E i \in 1..16 : CirculantEntry(mds.rhs, mds.lhs, i - 1) >= FieldOrder
    /\ \E i \in 1..16 : mds.output[i] # 0

\* C21: answering queries only reads the commit-phase result: once the
\* commit phase has returned, no step changes the round commitments, the
\* retained prover data or the final polynomial, and the step that answers a
\* query performs no transcript operation.
C21_QueriesOnlyRead ==
    [][ /\ pc \in {"grind", "query", "answer_query"} =>
              /\ commits' = commits
              /\ data' = data
              /\ final_poly' = final_poly
        /\ pc = "answer_query" => challenger' = challenger
      ]_vars

\* two queries answered over two rounds; the proof carries the commit-phase
\* result as the commit phase left it
C21_Witness ==
    /\ pc = "done"
    /\ Len(query_proofs) = 2
    /\ Len(data) >= 2
    /\ proof.commit_phase_commits = commits
    /\ proof.final_poly = final_poly
    /\ \A i \in 1..Len(data) : commits[i] = commit_matrix(data[i]).commit
    /\ Len(challenger) = 2 * Len(commits) + 3

\* the query proof determined by a sampled index and the commit-phase result
QueryProofFor(i) ==
    [input_proof |-> open_input(i),
     commit_phase_openings |->
         answer_query(cfg, data, Shr(i, cfg.extra_query_index_bits))]

\* C22: query indices are drawn from the transcript one at a time, each
\* only after the previous query has been answered; the j-th query proof is
\* the one determined by the j-th sampled index and the commit-phase result
\* alone, so the emitted list is the list of these proofs in sampling order,
\* in whatever order they are computed once the indices are fixed.
C22_QueryOrder ==
    /\ \A q \in 1..Len(query_proofs) :
          query_proofs[q] = QueryProofFor(SampledIndexOf(q))
    /\ pc = "query" =>
          Len(challenger) = 2 * Len(commits) + 1 + Len(query_proofs)
    /\ pc = "answer_query" =>
          /\ Len(challenger) = 2 * Len(commits) + 2 + Len(query_proofs)
          /\ challenger[Len(challenger)].ret = << index >>
    /\ pc = "done" =>
          proof.query_proofs =
              [q \in 1..cfg.num_queries |-> QueryProofFor(SampledIndexOf(q))]

\* two queries with different indices and different proofs, over two rounds
C22_Witness ==
    /\ pc = "done"
    /\ cfg.num_queries = 2
    /\ Len(data) >= 2
    /\ SampledIndexOf(1) > SampledIndexOf(2)
    /\ proof.query_proofs[1] # proof.query_proofs[2]
    /\ proof.query_proofs[1].commit_phase_openings #
          proof.query_proofs[2].commit_phase_openings

\* the next pending oracle is longer than any length the working vector
\* can still take after a fold: it can never be matched
Skipped ==
    /\ pc \in {"loop", "observe", "sample", "fold", "running"}
    /\ inputs_iter # << >>
    /\ Len(inputs_iter[1]) > Len(folded) \div 2

C24_IndexSplit ==
    /\ Len(query_proofs) <= Cardinality(OpsOf("sample_bits"))
    /\ \A q \in 1..Len(query_proofs) :
          LET sampled == challenger[2 * Len(commits) + 1 + q].ret[1]
              stripped == sampled \div Pow2(cfg.extra_query_index_bits)
          IN  /\ query_proofs[q].input_proof.opened_at = sampled
              /\ DOMAIN query_proofs[q] = {"input_proof", "commit_phase_openings"}
              /\ \A i \in 1..Len(query_proofs[q].commit_phase_openings) :
                    query_proofs[q].commit_phase_openings[i].opening_proof.row
                        = (stripped \div Pow2(i - 1)) \div 2

\* two queries with one extra bit, the first index with the extra bit set,
\* which changes the row opened in the first round
C24_Witness ==
    /\ pc = "done"
    /\ cfg.extra_query_index_bits = 1
    /\ Len(query_proofs) = 2
    /\ Len(data) >= 1
    /\ SampledIndexOf(1) % 2 = 1
    /\ SampledIndexOf(1) >= 4
    /\ query_proofs[1].input_proof.opened_at = SampledIndexOf(1)
    /\ query_proofs[1].commit_phase_openings[1].opening_proof.row
          # Shr(SampledIndexOf(1), 1)

\* C25: for valid inputs every row index passed to the commitment scheme's
\* open lies within the opened table: for the query under way and for every
\* round i (from 0), the table of round i has L / 2^(i+1) rows and the row
\* asked for, ((index >> extra bits) >> i) >> 1, is below that height.
C25_RowsInRange ==
    (pc = "answer_query" /\ ValidInputs) =>
        LET L == Len(inputs[1])
            stripped == index \div Pow2(cfg.extra_query_index_bits)
        IN  \A i \in 1..Len(data) :
                /\ Height(data[i]) * Pow2(i) = L
                /\ (stripped \div Pow2(i - 1)) \div 2 < Height(data[i])
                /\ (stripped \div Pow2(i - 1)) \div 2 >= 0

\* the largest index that can be sampled, over two rounds: the last row of
\* the first table is the one asked for
C25_Witness ==
    /\ pc = "answer_query"
    /\ ValidInputs
    /\ Len(data) >= 2
    /\ cfg.extra_query_index_bits = 1
    /\ index = Pow2(IndexBits) - 1
    /\ Shr(Shr(index, 1), 1) = Height(data[1]) - 1

\* the round (from 1) whose fold output has the length of oracle k
RoundOf(k) == log2_strict_usize(Len(inputs[1])) - log2_strict_usize(Len(inputs[k]))

\* C26: for valid inputs a finished run has taken every oracle after the
\* first, each added exactly once, in the round whose fold output has its
\* length, so in the supplied order and at most one per round; a round that
\* matches no oracle leaves the plain fold; and the final polynomial has
\* length min(L, max(blowup, final_poly_len), smallest oracle length).
C26_EveryOracleMixedOnce ==
    (pc = "done" /\ ValidInputs) =>
        /\ inputs_iter = << >>
        /\ \A k \in 2..Len(inputs) :
              /\ RoundOf(k) \in 1..Len(data)
              /\ k > 2 => RoundOf(k) > RoundOf(k - 1)
              /\ WorkingAfter(RoundOf(k)) =
                    AddInto(fold_matrix(ChallengeOf(RoundOf(k)), data[RoundOf(k)]),
                            inputs[k])
        /\ \A r \in 1..Len(data) :
              (\A k \in 2..Len(inputs) : RoundOf(k) # r) =>
                  WorkingAfter(r) = fold_matrix(ChallengeOf(r), data[r])
        /\ Len(final_poly) =
              Min(Len(inputs[1]), Min(Threshold, Len(inputs[Len(inputs)])))

\* three oracles of lengths 4, 2 and 1: two rounds, one oracle taken in
\* each, both changing the vector
C26_Witness ==
    /\ pc = "done"
    /\ ValidInputs
    /\ Len(inputs) = 3
    /\ Len(data) = 2
    /\ RoundOf(2) = 1
    /\ RoundOf(3) = 2
    /\ WorkingAfter(1) # fold_matrix(ChallengeOf(1), data[1])
    /\ WorkingAfter(2) # fold_matrix(ChallengeOf(2), data[2])
    /\ Len(final_poly) = 1

\* entry k (from 0) of lhs(x) rhs(x) mod x^N - 1, by the definition
CyclicEntry(lhs, rhs, k) ==
    SumSeq([i \in 1..Len(lhs) |-> lhs[i] * rhs[((k - (i - 1)) % Len(lhs)) + 1]])

\* entry k (from 0) of lhs(x) rhs(x) mod x^N + 1, by the definition: the
\* products that wrap around once enter with a minus sign
NegacyclicEntry(lhs, rhs, k) ==
    SumSeq([i \in 1..Len(lhs) |->
               IF i - 1 <= k THEN lhs[i] * rhs[k - (i - 1) + 1]
               ELSE 0 - lhs[i] * rhs[k - (i - 1) + Len(lhs) + 1]])

\* a call of the given routine has returned
ConvReturned(fn) == mds.stage = "return" /\ mds.fn = fn

\* C27: for N in {8, 16, 32, 64} and either implementor, convN writes the
\* cyclic convolution of lhs and rhs, lhs(x) rhs(x) mod x^N - 1: entry by
\* entry the integer value for SmallConvolution, and a representative of
\* its residue modulo the field order for LargeConvolution.
C27_CyclicConvolution ==
    ConvReturned("conv") =>
        /\ Len(mds.output) = Len(mds.lhs)
        /\ \A k \in 1..Len(mds.lhs) :
              LET w == CyclicEntry(mds.lhs, mds.rhs, k - 1)
              IN  IF mds.Self = "SmallConvolution" THEN mds.output[k] = w
                  ELSE mds.output[k] % FieldOrder = w % FieldOrder

\* a returned conv64 of LargeConvolution on vectors that are not sparse,
\* with an entry of the product the reduction had to act on (it is negative
\* or beyond the bits the reduction keeps) and an entry that is not zero
\* in the field
C27_Witness ==
    /\ ConvReturned("conv")
    /\ mds.Self = "LargeConvolution"
    /\ Len(mds.lhs) = 64
    /\ \A k \in 1..64 : mds.rhs[k] # 0
    /\ \E k \in 1..64 : mds.output[k] # CyclicEntry(mds.lhs, mds.rhs, k - 1)
    /\ \E k \in 1..64 : mds.output[k] % FieldOrder # 0

\* C28: for N in {4, 8, 16, 32}, signed_convN returns the signed
\* (negacyclic) convolution lhs(x) rhs(x) mod x^N + 1, so for N >= 8 the
\* even/odd Karatsuba recombination of three half-size signed convolutions
\* agrees with the direct definition: entry by entry the integer value for
\* SmallConvolution, and a representative of its residue modulo the field
\* order for LargeConvolution.
C28_SignedConvolution ==
    ConvReturned("signed_conv") =>
        /\ Len(mds.output) = Len(mds.lhs)
        /\ \A k \in 1..Len(mds.lhs) :
              LET w == NegacyclicEntry(mds.lhs, mds.rhs, k - 1)
              IN  IF mds.Self = "SmallConvolution" THEN mds.output[k] = w
                  ELSE mds.output[k] % FieldOrder = w % FieldOrder

\* a returned signed_conv32 of SmallConvolution on vectors without a zero
\* entry in rhs, where the sign of the wrapped products shows: an entry
\* differs from the cyclic convolution's
C28_Witness ==
    /\ ConvReturned("signed_conv")
    /\ mds.Self = "SmallConvolution"
    /\ Len(mds.lhs) = 32
    /\ \A k \in 1..32 : mds.rhs[k] # 0
    /\ \E k \in 1..32 : mds.output[k] # CyclicEntry(mds.lhs, mds.rhs, k - 1)
    /\ \E k \in 1..32 : mds.output[k] < 0

\* C29: conv12 returns the cyclic convolution of two length-12 integer
\* vectors, lhs(x) rhs(x) mod x^12 - 1, built from conv6 on the sums of the
\* halves (their product mod x^6 - 1) and sign_conv6 on the differences
\* (their product mod x^6 + 1); every entry that conv12 and conv6 shift
\* right by one is even, so the halvings are exact.
C29_Conv12 ==
    ConvReturned("conv12") =>
        LET l == split_add_sub(mds.lhs)
            r == split_add_sub(mds.rhs)
            prod_p == conv6(l.p, r.p)
            prod_m == sign_conv6(l.m, r.m)
        IN  /\ Len(mds.output) = 12
            /\ \A k \in 1..12 : mds.output[k] = CyclicEntry(mds.lhs, mds.rhs, k - 1)
            /\ \A k \in 1..6 : prod_p[k] = CyclicEntry(l.p, r.p, k - 1)
            /\ \A k \in 1..6 : prod_m[k] = NegacyclicEntry(l.m, r.m, k - 1)
            /\ \A k \in 1..12 : conv12_doubled(mds.lhs, mds.rhs)[k] % 2 = 0
            /\ \A k \in 1..6 : conv6_doubled(l.p, r.p)[k] % 2 = 0

\* a returned conv12 against the column of the MDS matrix, on a vector with
\* odd and even entries, with an odd entry in the result and a negative
\* entry in the signed half
C29_Witness ==
    /\ ConvReturned("conv12")
    /\ mds.rhs = row_to_col(MATRIX_CIRC_MDS_12_SML)
    /\ \E k \in 1..12 : mds.lhs[k] % 2 = 1
    /\ \E k \in 1..12 : mds.lhs[k] % 2 = 0
    /\ \E k \in 1..12 : mds.output[k] % 2 = 1
    /\ \E k \in 1..6 :
          sign_conv6(split_add_sub(mds.lhs).m, split_add_sub(mds.rhs).m)[k] < 0

====
